---- MODULE Spec2Model ----
(***************************************************************************)
(* Viewport / scissor dynamic state encoder of the Intel ICD               *)
(* (icd/intel/state.c): viewport_get_guardband, viewport_state_cmd,        *)
(* set_viewport_state and the vkCmdSetViewport entry point.                *)
(*                                                                         *)
(* A 32-bit word is the pair <<hi, lo>> of its 16-bit halves, because the  *)
(* model checker's integers are 32-bit signed.  "w >> 16" is w[1] and      *)
(* "w & 0xffff" is w[2].  Word k of state->cmd is state.cmd[k + 1].        *)
(* A float is the exact rational <<n, d>> (d > 0) it holds.  The viewport  *)
(* inputs below are small dyadic numbers, for which every float operation  *)
(* before the CLIP division is exact; u_fui rounds to the nearest float    *)
(* (ties to even) and yields the IEEE-754 single bit pattern.              *)
(***************************************************************************)
EXTENDS Integers, Sequences, FiniteSets, TLC

VARIABLES gen, state, status, nCalls, lastCount, lastViewports, lastScissors,
          written, gbcall

vars == <<gen, state, status, nCalls, lastCount, lastViewports, lastScissors,
          written, gbcall>>

(* ---------------------------- bounds ----------------------------------- *)
\* number of vkCmdSetViewport calls explored on one recording context
MaxCalls == 2
\* guardband centers are taken within this distance of each boundary value
CenterSlack == 1

(* ------------------------ device / capacity ---------------------------- *)
INTEL_GEN(major, tenth) == major * 100 + tenth * 10

Gens == {INTEL_GEN(6, 0), INTEL_GEN(7, 0), INTEL_GEN(7, 5)}

INTEL_GPU_ASSERT(g, lo, hi) == g >= lo /\ g <= hi

INTEL_MAX_VIEWPORTS == 16

\* number of uint32_t in intel_dynamic_viewport.cmd
CmdWords == INTEL_MAX_VIEWPORTS * (16 + 2 + 2)

\* sizeof(state->cmd)
CmdBytes == 4 * CmdWords

(* ------------------------- 32-bit word helpers ------------------------- *)
Abs(x) == IF x < 0 THEN -x ELSE x

RECURSIVE Or16(_, _)
\* bitwise OR of two values in 0..65535
Or16(a, b) ==
    IF a = 0 THEN b
    ELSE IF b = 0 THEN a
    ELSE (IF a % 2 = 1 \/ b % 2 = 1 THEN 1 ELSE 0) + 2 * Or16(a \div 2, b \div 2)

\* the two's complement bit pattern of a C int, as halves
Int32Halves(v) == <<(v \div 65536) % 65536, v % 65536>>

\* v << 16 on a C int (bits shifted out are lost)
Shl16(v) == <<v % 65536, 0>>

\* a | b on 32-bit patterns
OrW(a, b) == <<Or16(a[1], b[1]), Or16(a[2], b[2])>>

\* conversion of a value in 0..65535 to int16_t
ToInt16(v) == IF v >= 32768 THEN v - 65536 ELSE v

(* ----------------------------- floats ---------------------------------- *)
RAdd(a, b) == <<a[1] * b[2] + b[1] * a[2], a[2] * b[2]>>
RSub(a, b) == <<a[1] * b[2] - b[1] * a[2], a[2] * b[2]>>
RHalf(a) == <<a[1], 2 * a[2]>>
RAbs(a) == <<Abs(a[1]), a[2]>>
RDiv(a, b) == IF b[1] > 0 THEN <<a[1] * b[2], a[2] * b[1]>>
              ELSE <<-(a[1] * b[2]), a[2] * (-b[1])>>
RInt(v) == <<v, 1>>
\* (int) f : truncation toward zero
RTrunc(a) == IF a[1] >= 0 THEN a[1] \div a[2] ELSE -((-a[1]) \div a[2])

RECURSIVE F32Norm(_, _, _)
\* scale a/d into [1, 2) and count the binary exponent
F32Norm(a, d, e) ==
    IF a >= 2 * d THEN F32Norm(a, 2 * d, e + 1)
    ELSE IF a < d THEN F32Norm(2 * a, d, e - 1)
    ELSE <<a, d, e>>

RECURSIVE F32Frac(_, _, _, _)
\* k more significand bits of r/d (r < d) by long division
F32Frac(r, d, m, k) ==
    IF k = 0 THEN <<m, r>>
    ELSE IF 2 * r >= d THEN F32Frac(2 * r - d, d, 2 * m + 1, k - 1)
    ELSE F32Frac(2 * r, d, 2 * m, k - 1)

\* u_fui: the IEEE-754 single bit pattern of the float nearest to q
u_fui(q) ==
    IF q[1] = 0 THEN <<0, 0>>
    ELSE LET s  == IF q[1] < 0 THEN 1 ELSE 0
             nm == F32Norm(Abs(q[1]), q[2], 0)
             fr == F32Frac(nm[1] - nm[2], nm[2], 1, 23)
             up == 2 * fr[2] > nm[2] \/ (2 * fr[2] = nm[2] /\ fr[1] % 2 = 1)
             m1 == fr[1] + (IF up THEN 1 ELSE 0)
             e  == IF m1 = 16777216 THEN nm[3] + 1 ELSE nm[3]
             m  == IF m1 = 16777216 THEN 8388608 ELSE m1
             frac == m - 8388608
         IN <<s * 32768 + (e + 127) * 128 + frac \div 65536, frac % 65536>>

RECURSIVE F32Ulp(_, _)
\* spacing of floats around the non-negative integer a
F32Ulp(a, u) == IF a \div u < 16777216 THEN u ELSE F32Ulp(a, 2 * u)

\* int -> float -> int, as in "*min_gbx = (float) (...)"
IntToFloatToInt(v) ==
    LET a == Abs(v)
        u == F32Ulp(a, 1)
        q == a \div u
        r == a % u
        n == IF 2 * r > u \/ (2 * r = u /\ q % 2 = 1) THEN q + 1 ELSE q
    IN IF v < 0 THEN -(n * u) ELSE n * u

(* ------------------------ viewport_get_guardband ----------------------- *)
max_extent(g) == IF g >= INTEL_GEN(7, 0) THEN 32768 ELSE 16384

half_len == 8192 \div 2

\* the per-axis clamp of the guardband center
clamp_center(g, center) ==
    IF center - half_len < -max_extent(g) THEN -max_extent(g) + half_len
    ELSE IF center + half_len > max_extent(g) - 1 THEN max_extent(g) - half_len
    ELSE center

viewport_get_guardband(g, center_x, center_y) ==
    LET cx == clamp_center(g, center_x)
        cy == clamp_center(g, center_y)
    IN [min_gbx |-> IntToFloatToInt(cx - half_len),
        max_gbx |-> IntToFloatToInt(cx + half_len),
        min_gby |-> IntToFloatToInt(cy - half_len),
        max_gby |-> IntToFloatToInt(cy + half_len)]

(* -------------------------- viewport_state_cmd -------------------------- *)

\* mutants of count_assert: the count check left out
count_assert_off(count) == TRUE
count_assert_lax(count) == count <= INTEL_MAX_VIEWPORTS + 1

\* assert(count <= INTEL_MAX_VIEWPORTS)
count_assert(count) == count <= INTEL_MAX_VIEWPORTS


\* mutant of sf_clip_layout: the generation test excludes generation 7 itself
sf_clip_layout_gt7(g, count) ==
    IF g > INTEL_GEN(7, 0)
    THEN [cmd_len |-> 16 * count, cmd_clip_pos |-> 8]
    ELSE [cmd_len |-> 8 * count + 4 * count, cmd_clip_pos |-> 8 * count]
\* mutant of sf_clip_layout: the CLIP sub-block is not counted below generation 7
sf_clip_layout_noclip(g, count) ==
    IF g >= INTEL_GEN(7, 0)
    THEN [cmd_len |-> 16 * count, cmd_clip_pos |-> 8]
    ELSE [cmd_len |-> 8 * count, cmd_clip_pos |-> 8 * count]

\* the generation branch: length of the SF (+ CLIP) part and the CLIP offset
sf_clip_layout(g, count) ==
    IF g >= INTEL_GEN(7, 0)
    THEN [cmd_len |-> 16 * count, cmd_clip_pos |-> 8]
    ELSE [cmd_len |-> 8 * count + 4 * count, cmd_clip_pos |-> 8 * count]

\* assert(sizeof(uint32_t) * state->cmd_len <= sizeof(state->cmd))
size_assert(cmd_len) == 4 * cmd_len <= CmdBytes

viewport_state_cmd(st, g, count) ==
    IF ~INTEL_GPU_ASSERT(g, INTEL_GEN(6, 0), INTEL_GEN(7, 5))
    THEN [state |-> st, outcome |-> "abort_gen"]
    ELSE LET s0 == [st EXCEPT !.viewport_count = count]
         IN IF ~count_assert(count)
            THEN [state |-> s0, outcome |-> "abort_count"]
            ELSE LET a   == sf_clip_layout(g, count)
                     cc  == a.cmd_len
                     sc  == cc + 2 * count
                     len == sc + 2 * count
                     s1  == [s0 EXCEPT !.cmd_len = len,
                                       !.cmd_clip_pos = a.cmd_clip_pos,
                                       !.cmd_cc_pos = cc,
                                       !.cmd_scissor_rect_pos = sc]
                 IN [state |-> s1,
                     outcome |-> IF size_assert(len) THEN "ok" ELSE "abort_size"]

(* -------------------------- set_viewport_state ------------------------- *)
sf_stride(g) == IF g >= INTEL_GEN(7, 0) THEN 16 ELSE 8


\* mutant of clip_stride: the stride of the appended layout on every generation
clip_stride_4(g) == 4

clip_stride(g) == IF g >= INTEL_GEN(7, 0) THEN 16 ELSE 4

\* the words one viewport contributes to the SF, CLIP and CC sub-blocks
viewport_words(g, v) ==
    LET scale0 == RHalf(v.width)
        scale1 == RHalf(v.height)
        scale2 == RSub(v.maxDepth, v.minDepth)
        translate0 == RAdd(v.originX, scale0)
        translate1 == RAdd(v.originY, scale1)
        translate2 == v.minDepth
        gb == viewport_get_guardband(g, RTrunc(translate0), RTrunc(translate1))
    IN [sf   |-> <<u_fui(scale0), u_fui(scale1), u_fui(scale2),
                   u_fui(translate0), u_fui(translate1), u_fui(translate2),
                   <<0, 0>>, <<0, 0>>>>,
        clip |-> <<u_fui(RDiv(RSub(RInt(gb.min_gbx), translate0), RAbs(scale0))),
                   u_fui(RDiv(RSub(RInt(gb.max_gbx), translate0), RAbs(scale0))),
                   u_fui(RDiv(RSub(RInt(gb.min_gby), translate1), RAbs(scale1))),
                   u_fui(RDiv(RSub(RInt(gb.max_gby), translate1), RAbs(scale1)))>>,
        cc   |-> <<u_fui(v.minDepth), u_fui(v.maxDepth)>>]


\* mutant of scissor_nonempty: || in place of &&
scissor_nonempty_or(s) == s.width # 0 \/ s.height # 0

\* "scissor->extent.width && scissor->extent.height"
scissor_nonempty(s) == s.width # 0 /\ s.height # 0

\* the two words one scissor contributes to the SCISSOR_RECT sub-block
scissor_words(s) ==
    LET max_x == ToInt16((s.x + s.width - 1) % 65536)
        max_y == ToInt16((s.y + s.height - 1) % 65536)
    IN IF scissor_nonempty(s)
       THEN <<OrW(Shl16(s.y % 65536), Int32Halves(s.x % 65536)),
              OrW(Shl16(max_y), Int32Halves(max_x))>>
       ELSE <<OrW(Shl16(1), Int32Halves(1)), <<0, 0>>>>

(* ------------------------------ inputs --------------------------------- *)
Viewport(ox, oy, w, h, mind, maxd) ==
    [originX |-> ox, originY |-> oy, width |-> w, height |-> h,
     minDepth |-> mind, maxDepth |-> maxd]

Rect2D(x, y, w, h) == [x |-> x, y |-> y, width |-> w, height |-> h]

\* The viewports have nonzero width and height: with a zero scale the CLIP
\* words divide by zero, which the encoder leaves to its caller to exclude.
\* 800x600 at the origin, depth 0..1
VA == Viewport(<<0, 1>>, <<0, 1>>, <<800, 1>>, <<600, 1>>, <<0, 1>>, <<1, 1>>)
\* far off-screen, flipped in y, depth 0.25..0.75: the guardband is clamped
VB == Viewport(<<32000, 1>>, <<-40000, 1>>, <<1024, 1>>, <<-2, 1>>, <<1, 4>>, <<3, 4>>)

SA == Rect2D(10, 20, 100, 50)
SB == Rect2D(5, 5, 0, 7)
SC == Rect2D(-5, 3, 3, 40000)

VList == <<VA, VB>>
SList == <<SA, SB, SC>>
Starts == {0, 1}

ViewportArray(start, count) == [i \in 1..count |-> VList[((start + i) % Len(VList)) + 1]]
ScissorArray(start, count) == [i \in 1..count |-> SList[((start + i) % Len(SList)) + 1]]

ScissorXs == {-5, 0, 10, 32767, 65535, 65546}
ScissorYs == {-1, 0, 20, 40000}
ScissorWs == {0, 1, 100, 32769, 65536, 70000}
ScissorHs == {0, 1, 50, 65537}
ScissorInputs == {Rect2D(x, y, w, h) : x \in ScissorXs, y \in ScissorYs,
                                       w \in ScissorWs, h \in ScissorHs}

CenterBases == {-40000, -32768, -28672, -16384, -12288, 0,
                12288, 16384, 28672, 32768, 40000}
Centers == {b + d : b \in CenterBases, d \in (-CenterSlack)..CenterSlack}

\* viewport_words and scissor_words tabulated over the inputs above
ViewportInputs == {VList[i] : i \in 1..Len(VList)}
AllScissors == ScissorInputs \cup {SList[i] : i \in 1..Len(SList)}
ViewportWordsOf == [g \in Gens |-> [v \in ViewportInputs |-> viewport_words(g, v)]]
ScissorWordsOf == [s \in AllScissors |-> scissor_words(s)]

\* Below, "CHOOSE r \in {F(a) : a \in {x}} : TRUE" is F applied to the value
\* of x: the statement x is carried out once, before what follows it.

\* dw = cmd + base; dw[0..] = words : the stores and their word indices.
\* cmd is kept as a sequence: word k of the buffer is cmd[k + 1].
store(acc, base, words) ==
    CHOOSE r \in
        {[cmd     |-> IF base >= 0 /\ base + Len(words) <= Len(a.cmd)
                      THEN SubSeq(a.cmd, 1, base) \o words
                           \o SubSeq(a.cmd, base + Len(words) + 1, Len(a.cmd))
                      ELSE a.cmd,
          written |-> a.written \o [j \in 1..Len(words) |-> base + j - 1]]
         : a \in {acc}} : TRUE

\* one iteration of the viewport loop: SF_VIEWPORT, CLIP_VIEWPORT, CC_VIEWPORT
viewport_iter(acc, st, g, viewports, i) ==
    CHOOSE r \in
        {store(store(store(acc, i * sf_stride(g), w.sf),
                     st.cmd_clip_pos + i * clip_stride(g), w.clip),
               st.cmd_cc_pos + 2 * i, w.cc)
         : w \in {ViewportWordsOf[g][viewports[i + 1]]}} : TRUE

RECURSIVE viewport_loop(_, _, _, _, _, _)
\* for (i = 0; i < count; i++) over the viewports
viewport_loop(acc, st, g, count, viewports, i) ==
    IF i >= count THEN acc
    ELSE CHOOSE r \in
             {viewport_loop(a, st, g, count, viewports, i + 1)
              : a \in {viewport_iter(acc, st, g, viewports, i)}} : TRUE

\* one iteration of the scissor loop: SCISSOR_RECT
scissor_iter(acc, st, scissors, i) ==
    store(acc, st.cmd_scissor_rect_pos + 2 * i, ScissorWordsOf[scissors[i + 1]])

RECURSIVE scissor_loop(_, _, _, _, _)
\* for (i = 0; i < count; i++) over the scissors
scissor_loop(acc, st, count, scissors, i) ==
    IF i >= count THEN acc
    ELSE CHOOSE r \in
             {scissor_loop(a, st, count, scissors, i + 1)
              : a \in {scissor_iter(acc, st, scissors, i)}} : TRUE

\* the two loops, on the layout st that viewport_state_cmd has set
encode(st, g, count, viewports, scissors) ==
    CHOOSE r \in
        {[state   |-> [st EXCEPT !.cmd = a.cmd],
          outcome |-> "ok",
          written |-> a.written]
         : a \in {scissor_loop(viewport_loop([cmd |-> st.cmd, written |-> <<>>],
                                             st, g, count, viewports, 0),
                               st, count, scissors, 0)}} : TRUE

set_viewport_state(st, g, count, viewports, scissors) ==
    IF ~INTEL_GPU_ASSERT(g, INTEL_GEN(6, 0), INTEL_GEN(7, 5))
    THEN [state |-> st, outcome |-> "abort_gen", written |-> <<>>]
    ELSE CHOOSE res \in
             {IF r.outcome # "ok"
              THEN [state |-> r.state, outcome |-> r.outcome, written |-> <<>>]
              ELSE encode(r.state, g, count, viewports, scissors)
              : r \in {viewport_state_cmd(st, g, count)}} : TRUE

(* ------------------------------ state ---------------------------------- *)
\* struct intel_dynamic_viewport of a new recording context
InitState == [viewport_count |-> 0,
              cmd |-> [k \in 1..CmdWords |-> <<0, 0>>],
              cmd_len |-> 0,
              cmd_clip_pos |-> 0,
              cmd_cc_pos |-> 0,
              cmd_scissor_rect_pos |-> 0]

GbIdle == [pc |-> "idle", center_x |-> 0, center_y |-> 0,
           min_gbx |-> 0, max_gbx |-> 0, min_gby |-> 0, max_gby |-> 0]

Init ==
    /\ gen \in Gens
    /\ state = InitState
    /\ status = "ok"
    /\ nCalls = 0
    /\ lastCount = 0
    /\ lastViewports = <<>>
    /\ lastScissors = <<>>
    /\ written = <<>>
    /\ gbcall = GbIdle

\* one call of the entry point on the recording context
vkCmdSetViewport(count, viewports, scissors) ==
    /\ status = "ok"
    /\ nCalls < MaxCalls
    /\ \E r \in {set_viewport_state(state, gen, count, viewports, scissors)} :
          /\ state' = r.state
          /\ status' = r.outcome
          /\ written' = r.written
    /\ nCalls' = nCalls + 1
    /\ lastCount' = count
    /\ lastViewports' = viewports
    /\ lastScissors' = scissors
    /\ UNCHANGED <<gen, gbcall>>

Next ==
    \E count \in 0..(INTEL_MAX_VIEWPORTS + 1), start \in Starts :
        vkCmdSetViewport(count, ViewportArray(start, count), ScissorArray(start, count))

Spec == Init /\ [][Next]_vars

(* one call with one or two scissors drawn from ScissorInputs *)
ScissorCall ==
    \E count \in 1..2, s \in ScissorInputs :
        /\ nCalls = 0
        /\ vkCmdSetViewport(count, [i \in 1..count |-> VA],
                            IF count = 1 THEN <<s>> ELSE <<SA, s>>)

SpecScissor == Init /\ [][ScissorCall]_vars

(* viewport_get_guardband applied to centers drawn from Centers *)
InitGB ==
    /\ gen \in Gens
    /\ state = InitState
    /\ status = "ok"
    /\ nCalls = 0
    /\ lastCount = 0
    /\ lastViewports = <<>>
    /\ lastScissors = <<>>
    /\ written = <<>>
    /\ \E cx \in Centers, cy \in Centers :
          gbcall = [GbIdle EXCEPT !.pc = "start", !.center_x = cx, !.center_y = cy]

GuardbandCall ==
    /\ gbcall.pc = "start"
    /\ \E gb \in {viewport_get_guardband(gen, gbcall.center_x, gbcall.center_y)} :
          gbcall' = [gbcall EXCEPT !.pc = "done",
                                   !.min_gbx = gb.min_gbx, !.max_gbx = gb.max_gbx,
                                   !.min_gby = gb.min_gby, !.max_gby = gb.max_gby]
    /\ UNCHANGED <<gen, state, status, nCalls, lastCount, lastViewports,
                   lastScissors, written>>

SpecGB == InitGB /\ [][GuardbandCall]_vars

(* ------------------------------ claims --------------------------------- *)
\* word k of the encoded buffer
Word(k) == state.cmd[k + 1]

\* a call has completed and its results are in the state holder
Completed == status = "ok" /\ nCalls >= 1

Gen7Up == gen >= INTEL_GEN(7, 0)

\* C1: for a supported generation and a count in 1..max, the layout planner
\* gives on generation >= 7 total = 16c + 2c + 2c, CLIP = 8, CC = 16c,
\* scissor = 18c; on generation < 7 total = 8c + 4c + 2c + 2c, CLIP = 8c,
\* CC = 12c, scissor = 14c; and viewport_count = c.
C1_Layout ==
    (Completed /\ lastCount \in 1..INTEL_MAX_VIEWPORTS) =>
        LET c == lastCount
        IN /\ state.viewport_count = c
           /\ Gen7Up =>
                /\ state.cmd_len = 16 * c + 2 * c + 2 * c
                /\ state.cmd_clip_pos = 8
                /\ state.cmd_cc_pos = 16 * c
                /\ state.cmd_scissor_rect_pos = 18 * c
           /\ ~Gen7Up =>
                /\ state.cmd_len = 8 * c + 4 * c + 2 * c + 2 * c
                /\ state.cmd_clip_pos = 8 * c
                /\ state.cmd_cc_pos = 12 * c
                /\ state.cmd_scissor_rect_pos = 14 * c

C1_Witness ==
    /\ Completed /\ gen = INTEL_GEN(7, 0) /\ lastCount = 3
    /\ state.cmd_len = 60 /\ state.cmd_scissor_rect_pos = 54

\* C2: the guardband returned by viewport_get_guardband lies inside the
\* generation's valid range on both axes: min >= -extent, max <= extent - 1.
C2_GuardbandInExtent ==
    gbcall.pc = "done" =>
        /\ gbcall.min_gbx >= -max_extent(gen)
        /\ gbcall.max_gbx <= max_extent(gen) - 1
        /\ gbcall.min_gby >= -max_extent(gen)
        /\ gbcall.max_gby <= max_extent(gen) - 1

\* the claim of C3 on one axis
PinnedAxis(center, lo, hi) ==
    /\ center - 4096 < -max_extent(gen) => (lo = -max_extent(gen) /\ hi - lo = 8192)
    /\ center + 4096 > max_extent(gen) - 1 => (hi = max_extent(gen) - 1 /\ hi - lo = 8192)

\* C3: a center whose unclamped guardband leaves the extent on an axis gets a
\* guardband pinned to the boundary it crossed (min = -extent, or
\* max = extent - 1), of width 8192.
C3_GuardbandPinned ==
    gbcall.pc = "done" =>
        /\ PinnedAxis(gbcall.center_x, gbcall.min_gbx, gbcall.max_gbx)
        /\ PinnedAxis(gbcall.center_y, gbcall.min_gby, gbcall.max_gby)

\* the two words of scissor i (1-based) in the encoded buffer
ScissorWord0(i) == Word(state.cmd_scissor_rect_pos + 2 * (i - 1))
ScissorWord1(i) == Word(state.cmd_scissor_rect_pos + 2 * (i - 1) + 1)

\* C4: for a scissor with nonzero width and height, decoding the two words
\* gives back offset.x, offset.y, offset.x + width - 1 and
\* offset.y + height - 1, each modulo 2^16.
C4_ScissorRoundTrip ==
    Completed =>
        \A i \in 1..lastCount :
            LET s == lastScissors[i]
            IN (s.width # 0 /\ s.height # 0) =>
                  /\ ScissorWord0(i)[2] = s.x % 65536
                  /\ ScissorWord0(i)[1] = s.y % 65536
                  /\ ScissorWord1(i)[2] = (s.x + s.width - 1) % 65536
                  /\ ScissorWord1(i)[1] = (s.y + s.height - 1) % 65536

\* the word range [lo, lo + len) as a set
Range(lo, len) == lo..(lo + len - 1)

\* C5 as stated: after a call with count in 0..max, 0 <= CLIP <= CC <=
\* scissor <= total, the four sub-blocks' word ranges are pairwise disjoint,
\* and each sub-block is stride * viewport_count words long.
C5_Original ==
    (Completed /\ lastCount \in 0..INTEL_MAX_VIEWPORTS) =>
        LET n    == state.viewport_count
            sf   == Range(0, sf_stride(gen) * n)
            clip == Range(state.cmd_clip_pos, clip_stride(gen) * n)
            cc   == Range(state.cmd_cc_pos, 2 * n)
            sc   == Range(state.cmd_scissor_rect_pos, 2 * n)
        IN /\ 0 <= state.cmd_clip_pos
           /\ state.cmd_clip_pos <= state.cmd_cc_pos
           /\ state.cmd_cc_pos <= state.cmd_scissor_rect_pos
           /\ state.cmd_scissor_rect_pos <= state.cmd_len
           /\ sf \cap clip = {} /\ sf \cap cc = {} /\ sf \cap sc = {}
           /\ clip \cap cc = {} /\ clip \cap sc = {} /\ cc \cap sc = {}
           /\ state.cmd_clip_pos - 0 = sf_stride(gen) * n
           /\ state.cmd_cc_pos - state.cmd_clip_pos = clip_stride(gen) * n
           /\ state.cmd_scissor_rect_pos - state.cmd_cc_pos = 2 * n
           /\ state.cmd_len - state.cmd_scissor_rect_pos = 2 * n

\* C5 amended: CC <= scissor <= total with CC and scissor 2 * viewport_count
\* words each; below generation 7 the four sub-blocks are consecutive and
\* disjoint (SF 8n, CLIP 4n words); from generation 7 the CLIP offset is the
\* constant 8, SF and CLIP entries share 16-word slots that fill [0, CC),
\* the entries never share a word, and CLIP <= CC as soon as n >= 1.
C5_Amended ==
    (Completed /\ lastCount \in 0..INTEL_MAX_VIEWPORTS) =>
        LET n  == state.viewport_count
            cc == Range(state.cmd_cc_pos, 2 * n)
            sc == Range(state.cmd_scissor_rect_pos, 2 * n)
        IN /\ state.cmd_cc_pos <= state.cmd_scissor_rect_pos
           /\ state.cmd_scissor_rect_pos <= state.cmd_len
           /\ state.cmd_scissor_rect_pos - state.cmd_cc_pos = 2 * n
           /\ state.cmd_len - state.cmd_scissor_rect_pos = 2 * n
           /\ cc \cap sc = {}
           /\ ~Gen7Up =>
                LET sf   == Range(0, 8 * n)
                    clip == Range(state.cmd_clip_pos, 4 * n)
                IN /\ 0 <= state.cmd_clip_pos
                   /\ state.cmd_clip_pos <= state.cmd_cc_pos
                   /\ state.cmd_clip_pos = 8 * n
                   /\ state.cmd_cc_pos - state.cmd_clip_pos = 4 * n
                   /\ sf \cap clip = {} /\ (sf \cup clip) \cap (cc \cup sc) = {}
           /\ Gen7Up =>
                LET sf   == UNION {Range(16 * i, 8) : i \in 0..(n - 1)}
                    clip == UNION {Range(state.cmd_clip_pos + 16 * i, 4) : i \in 0..(n - 1)}
                IN /\ state.cmd_clip_pos = 8
                   /\ state.cmd_cc_pos = 16 * n
                   /\ n >= 1 => state.cmd_clip_pos <= state.cmd_cc_pos
                   /\ sf \cap clip = {}
                   /\ (sf \cup clip) \subseteq Range(0, state.cmd_cc_pos)
                   /\ (sf \cup clip) \cap (cc \cup sc) = {}

C5_Witness ==
    /\ Completed /\ gen = INTEL_GEN(7, 5) /\ state.viewport_count = 2
    /\ state.cmd_clip_pos = 8 /\ state.cmd_cc_pos = 32

\* C6: at all times total length * 4 bytes <= the capacity of the buffer
\* (20 * max words), and the size assertion of the layout planner never fires.
C6_FitsBuffer ==
    /\ 4 * state.cmd_len <= CmdBytes
    /\ 4 * state.cmd_len <= 4 * 20 * INTEL_MAX_VIEWPORTS
    /\ status # "abort_size"

C6_Witness ==
    /\ Completed /\ Gen7Up /\ state.viewport_count = INTEL_MAX_VIEWPORTS
    /\ 4 * state.cmd_len = CmdBytes

\* C7: a call with count = max completes; a call with count = max + 1 aborts
\* and leaves every word of the encoded buffer as it was.
C7_CountBoundary ==
    [][ /\ (nCalls' = nCalls + 1 /\ lastCount' = INTEL_MAX_VIEWPORTS) =>
              status' = "ok"
        /\ (nCalls' = nCalls + 1 /\ lastCount' = INTEL_MAX_VIEWPORTS + 1) =>
              /\ status' \in {"abort_count", "abort_size", "abort_gen"}
              /\ state'.cmd = state.cmd
              /\ written' = <<>> ]_vars

C7_Witness ==
    /\ status = "abort_count" /\ lastCount = INTEL_MAX_VIEWPORTS + 1
    /\ nCalls = 2 /\ written = <<>>
    /\ state.cmd_len = 20 * INTEL_MAX_VIEWPORTS

\* C8: for a scissor whose width or height is 0, the scissor's slot holds
\* word0 = 0x00010001 and word1 = 0.
C8_EmptyScissor ==
    Completed =>
        \A i \in 1..lastCount :
            LET s == lastScissors[i]
            IN (s.width = 0 \/ s.height = 0) =>
                  /\ ScissorWord0(i) = <<1, 1>>
                  /\ ScissorWord1(i) = <<0, 0>>

C8_Witness ==
    /\ Completed /\ lastCount = 2
    /\ lastScissors[2].width = 0 /\ lastScissors[2].height = 65537
    /\ lastScissors[2].x = 65546
    /\ ScissorWord0(2) = <<1, 1>> /\ ScissorWord1(2) = <<0, 0>>

\* the state holder the most recent call produces on a new recording context
FreshState ==
    set_viewport_state(InitState, gen, lastCount, lastViewports, lastScissors).state

\* C9: after any sequence of calls, viewport_count, the offsets, the total
\* length and every word in [0, total length) are those the most recent call
\* alone determines: no word of the encoded region is left from an earlier call.
C9_FullyOverwritten ==
    Completed =>
        /\ state.viewport_count = FreshState.viewport_count
        /\ state.cmd_len = FreshState.cmd_len
        /\ state.cmd_clip_pos = FreshState.cmd_clip_pos
        /\ state.cmd_cc_pos = FreshState.cmd_cc_pos
        /\ state.cmd_scissor_rect_pos = FreshState.cmd_scissor_rect_pos
        /\ \A k \in 0..(state.cmd_len - 1) : Word(k) = FreshState.cmd[k + 1]

\* C10: in one call every word index written lies in [0, total length), no
\* index is written twice, and the indices are: SF i*sf_stride + 0..7, CLIP
\* clip_offset + i*clip_stride + 0..3, CC cc_offset + 2i + 0..1, scissor
\* scissor_offset + 2i + 0..1, with sf_stride/clip_stride 16/16 from
\* generation 7 and 8/4 below.
C10_WritesInPlace ==
    Completed =>
        LET n   == lastCount
            sfs == IF Gen7Up THEN 16 ELSE 8
            cls == IF Gen7Up THEN 16 ELSE 4
            expected ==
                UNION {Range(i * sfs, 8)
                       \cup Range(state.cmd_clip_pos + i * cls, 4)
                       \cup Range(state.cmd_cc_pos + 2 * i, 2)
                       \cup Range(state.cmd_scissor_rect_pos + 2 * i, 2)
                       : i \in 0..(n - 1)}
            idx == {written[j] : j \in 1..Len(written)}
        IN /\ idx \subseteq 0..(state.cmd_len - 1)
           /\ Cardinality(idx) = Len(written)
           /\ Len(written) = 16 * n
           /\ idx = expected

C10_Witness ==
    /\ Completed /\ Gen7Up /\ lastCount = INTEL_MAX_VIEWPORTS
    /\ Len(written) = 256 /\ written[256] = 319

====
